---- MODULE Spec2Model ----
(***************************************************************************)
(* Model of src/main.py (Logpush): the markdown TODO parser, the sort and  *)
(* slot loop of main(), the display formatter, the notification gate and   *)
(* the widget file writer.  Text is modelled as sequences of one-character *)
(* strings; Python's None is the empty tuple and a present value x is the  *)
(* one-element tuple <<x>>.                                                *)
(***************************************************************************)
EXTENDS Integers, Sequences, FiniteSets, TLC

VARIABLES
    lines,      \* the markdown file: a sequence of text lines
    now,        \* the clock datetime.now() reads: a date and a second of day
    tracker,    \* the notification tracker file: None or <<text>>
    files,      \* the widget files pushWidget0..4: None or <<text>>
    pc,         \* position of main(): "idle", "slots", "done", "crashed"
    error,      \* the exception that ended the run, or "none"
    tasks,      \* main()'s sorted task list
    slot,       \* the loop index i of the slot loop
    written,    \* the slot indexes written by the current run
    calls,      \* every should_send_notification call, oldest first
    sent,       \* every request handed to the transport, oldest first
    runs,       \* number of runs started
    tDesc,      \* truncate_task_description called on its own: argument
    tLimit,     \*   its trunc_length
    tResult,    \*   its return value
    tpc         \*   "call", "done" (returned) or "hung" (never returns)

vars == <<lines, now, tracker, files, pc, error, tasks, slot, written,
          calls, sent, runs, tDesc, tLimit, tResult, tpc>>

runVars == <<lines, now, tracker, files, pc, error, tasks, slot, written,
             calls, sent, runs>>

truncVars == <<tDesc, tLimit, tResult, tpc>>

None == <<>>

Some(x) == <<x>>

(***************************************************************************)
(* Bounds of the model.                                                    *)
(***************************************************************************)
MaxStrLen == 5      \* longest description given to truncate on its own
MaxLimit == 5       \* largest trunc_length given to truncate on its own
MaxEntries == 2     \* most catalogue entries combined into one markdown file
MaxRuns == 2        \* most successive runs of main()
MaxDescLen == 42    \* longest description of the long-description files

(***************************************************************************)
(* Python string primitives.                                               *)
(***************************************************************************)
Whitespace == {" ", "\t", "\n"}

\* s[:n], for any integer n (a negative n counts from the end)
Take(s, n) ==
    IF n >= 0
    THEN SubSeq(s, 1, IF n < Len(s) THEN n ELSE Len(s))
    ELSE SubSeq(s, 1, IF Len(s) + n > 0 THEN Len(s) + n ELSE 0)

RECURSIVE LStrip(_)
LStrip(s) ==
    IF s # <<>> /\ Head(s) \in Whitespace THEN LStrip(Tail(s)) ELSE s

RECURSIVE RStrip(_)
RStrip(s) ==
    IF s # <<>> /\ s[Len(s)] \in Whitespace
    THEN RStrip(SubSeq(s, 1, Len(s) - 1))
    ELSE s

\* str.strip()
Strip(s) == RStrip(LStrip(s))

Ellipsis == <<".", ".", ".">>

(***************************************************************************)
(* truncate_task_description                                               *)
(***************************************************************************)
\* the value standing for a call that never returns
Hang == <<"<hang>">>

\* while end > 0 and task_description[end] != ' ': end -= 1
RECURSIVE ScanEnd(_, _)
ScanEnd(d, end) ==
    IF end > 0 /\ d[end + 1] # " " THEN ScanEnd(d, end - 1) ELSE end

\* while len(truncated) + 3 > trunc_length: truncated = truncated[:len-1].strip()
\* The loop spins for ever once the text is empty and 3 > trunc_length.
RECURSIVE DropLoop(_, _)
DropLoop(truncated, trunc_length) ==
    IF Len(truncated) + 3 > trunc_length
    THEN LET shorter == Strip(Take(truncated, Len(truncated) - 1))
         IN  IF shorter = truncated THEN Hang
             ELSE DropLoop(shorter, trunc_length)
    ELSE truncated

truncate_task_description(task_description, trunc_length) ==
    IF Len(task_description) <= trunc_length
    THEN task_description
    ELSE LET end == ScanEnd(task_description, trunc_length)
         IN  IF end = 0
             THEN Strip(Take(task_description, trunc_length - 3)) \o Ellipsis
             ELSE LET truncated ==
                          DropLoop(Strip(Take(task_description, end)),
                                   trunc_length)
                  IN  IF truncated = Hang THEN Hang
                      ELSE truncated \o Ellipsis

(***************************************************************************)
(* Numbers and text.                                                       *)
(***************************************************************************)
DigitChar == <<"0", "1", "2", "3", "4", "5", "6", "7", "8", "9">>

IsDigit(c) == \E v \in 0..9 : DigitChar[v + 1] = c

DigitVal(c) == CHOOSE v \in 0..9 : DigitChar[v + 1] = c

\* int(text) of a string of digits
RECURSIVE ToInt(_)
ToInt(s) ==
    IF s = <<>> THEN 0
    ELSE ToInt(SubSeq(s, 1, Len(s) - 1)) * 10 + DigitVal(s[Len(s)])

\* the decimal digits of n, no leading zeros (strftime's %-m and %-d)
RECURSIVE ToStr(_)
ToStr(n) ==
    IF n < 10 THEN <<DigitChar[n + 1]>>
    ELSE ToStr(n \div 10) \o <<DigitChar[(n % 10) + 1]>>

\* n in at least w digits, zero filled (%02d, %04d)
RECURSIVE Pad(_, _)
Pad(n, w) ==
    IF w <= 1 THEN ToStr(n)
    ELSE IF Len(ToStr(n)) >= w THEN ToStr(n)
    ELSE <<"0">> \o Pad(n, w - 1)

Spaces(n) == IF n > 0 THEN [k \in 1..n |-> " "] ELSE <<>>

\* s.startswith(p)
StartsWith(s, p) == Len(s) >= Len(p) /\ SubSeq(s, 1, Len(p)) = p

\* p occurs in s at index i (1-based)
MatchesAt(s, i, p) ==
    /\ i >= 1
    /\ i + Len(p) - 1 <= Len(s)
    /\ SubSeq(s, i, i + Len(p) - 1) = p

\* p in s
Contains(s, p) == \E i \in 1..(Len(s) + 1) : MatchesAt(s, i, p)

\* \d{n} at index i
DigitsAt(s, i, n) ==
    /\ i >= 1
    /\ i + n - 1 <= Len(s)
    /\ \A k \in i..(i + n - 1) : IsDigit(s[k])

(***************************************************************************)
(* parse_task_line and parse_scheduled_line                                *)
(***************************************************************************)
TodoMarker == <<"-", " ", "T", "O", "D", "O">>

ScheduledMarker == <<"S", "C", "H", "E", "D", "U", "L", "E", "D", ":">>

\* re.match(r"- TODO (.+)", line): group 1, or None
parse_task_line(line) ==
    IF StartsWith(line, TodoMarker \o <<" ">>)
       /\ Len(line) > Len(TodoMarker) + 1
       /\ line[Len(TodoMarker) + 2] # "\n"
    THEN Some(SubSeq(line, Len(TodoMarker) + 2, Len(line)))
    ELSE None

\* \d{4}-\d{2}-\d{2} at index i
DateShapeAt(s, i) ==
    /\ DigitsAt(s, i, 4)
    /\ MatchesAt(s, i + 4, <<"-">>)
    /\ DigitsAt(s, i + 5, 2)
    /\ MatchesAt(s, i + 7, <<"-">>)
    /\ DigitsAt(s, i + 8, 2)

\* SCHEDULED: <(\d{4}-\d{2}-\d{2}) at index i
ScheduledDateAt(s, i) ==
    /\ MatchesAt(s, i, ScheduledMarker \o <<" ", "<">>)
    /\ DateShapeAt(s, i + Len(ScheduledMarker) + 2)

\* (\d{2}:\d{2}) at index i
TimeShapeAt(s, i) ==
    /\ DigitsAt(s, i, 2)
    /\ MatchesAt(s, i + 2, <<":">>)
    /\ DigitsAt(s, i + 3, 2)

\* re.search: the leftmost match of each pattern; <<scheduled_date, scheduled_time>>
parse_scheduled_line(line) ==
    LET dateAts == {i \in 1..Len(line) : ScheduledDateAt(line, i)}
        timeAts == {i \in 1..Len(line) : TimeShapeAt(line, i)}
        di      == (CHOOSE i \in dateAts : \A j \in dateAts : i <= j)
                       + Len(ScheduledMarker) + 2
        ti      == CHOOSE i \in timeAts : \A j \in timeAts : i <= j
    IN  << IF dateAts = {} THEN None ELSE Some(SubSeq(line, di, di + 9)),
           IF timeAts = {} THEN None ELSE Some(SubSeq(line, ti, ti + 4)) >>

(***************************************************************************)
(* datetime                                                                *)
(***************************************************************************)
IsLeap(y) == (y % 4 = 0) /\ ((y % 100 # 0) \/ (y % 400 = 0))

DaysInMonth(y, m) ==
    IF m = 2 THEN (IF IsLeap(y) THEN 29 ELSE 28)
    ELSE IF m \in {4, 6, 9, 11} THEN 30 ELSE 31

RECURSIVE DaysBeforeMonth(_, _)
DaysBeforeMonth(y, m) ==
    IF m <= 1 THEN 0 ELSE DaysBeforeMonth(y, m - 1) + DaysInMonth(y, m - 1)

\* date.toordinal()
Ordinal(y, m, d) ==
    (y - 1) * 365 + ((y - 1) \div 4) - ((y - 1) \div 100) + ((y - 1) \div 400)
    + DaysBeforeMonth(y, m) + d

\* datetime.strptime(text, '%Y-%m-%d %H:%M') on the tokens the patterns give
\* (with scheduled_time None: '%Y-%m-%d', midnight).  None stands for the
\* ValueError strptime raises when a field is out of range.
strptime(scheduled_date, scheduled_time) ==
    LET y  == ToInt(SubSeq(scheduled_date, 1, 4))
        m  == ToInt(SubSeq(scheduled_date, 6, 7))
        d  == ToInt(SubSeq(scheduled_date, 9, 10))
        h  == IF scheduled_time = None THEN 0
              ELSE ToInt(SubSeq(scheduled_time[1], 1, 2))
        mi == IF scheduled_time = None THEN 0
              ELSE ToInt(SubSeq(scheduled_time[1], 4, 5))
    IN  IF /\ y >= 1
           /\ m >= 1 /\ m <= 12
           /\ d >= 1 /\ d <= DaysInMonth(y, m)
           /\ h <= 23
           /\ mi <= 59
        THEN Some([year |-> y, month |-> m, day |-> d, hour |-> h,
                   minute |-> mi])
        ELSE None

\* (scheduled_date_time - now).total_seconds(); now carries its second of day
total_seconds(dt, clock) ==
    (Ordinal(dt.year, dt.month, dt.day)
       - Ordinal(clock.year, clock.month, clock.day)) * 86400
    + dt.hour * 3600 + dt.minute * 60 - clock.sod

\* datetime.isoformat() of a datetime with no microseconds
isoformat(dt) ==
    Pad(dt.year, 4) \o <<"-">> \o Pad(dt.month, 2) \o <<"-">> \o Pad(dt.day, 2)
    \o <<"T">> \o Pad(dt.hour, 2) \o <<":">> \o Pad(dt.minute, 2)
    \o <<":", "0", "0">>

\* dt.strftime('%-m/%-d/%y')
format_date(dt) ==
    ToStr(dt.month) \o <<"/">> \o ToStr(dt.day) \o <<"/">>
    \o Pad(dt.year % 100, 2)

\* the sort key's order on due dates: minutes since the start of year 1
SortKey(dt) ==
    (Ordinal(dt.year, dt.month, dt.day) * 24 + dt.hour) * 60 + dt.minute

(***************************************************************************)
(* Display formatter                                                       *)
(***************************************************************************)
\* pad_task_description_with_date with the ' ()' framing counted as 2
pad_without_space(description, formatted_date, total_length) ==
    LET space_needed ==
            total_length - Len(description) - Len(formatted_date) - 2
    IN  description \o Spaces(space_needed) \o <<" ", "(">> \o formatted_date
        \o <<")">>

pad_task_description_with_date(description, formatted_date, total_length) ==
    LET space_needed ==
            total_length - Len(description) - Len(formatted_date) - 3
    IN  description \o Spaces(space_needed) \o <<" ", "(">> \o formatted_date
        \o <<")">>

\* str.ljust(width)
ljust(s, width) == s \o Spaces(width - Len(s))

(***************************************************************************)
(* Notification gate                                                       *)
(***************************************************************************)
\* tracker_file is None (no file) or <<content>>; the result is whether to
\* send and the file afterwards
\* should_send_notification without the early "return False"
gate_always_sends(tracker_file, task_time) ==
    [permit |-> TRUE, file |-> Some(task_time)]

\* should_send_notification without the write of the tracker file
gate_never_writes(tracker_file, task_time) ==
    IF tracker_file # None /\ Strip(tracker_file[1]) = task_time
    THEN [permit |-> FALSE, file |-> tracker_file]
    ELSE [permit |-> TRUE, file |-> tracker_file]

should_send_notification(tracker_file, task_time) ==
    IF tracker_file # None /\ Strip(tracker_file[1]) = task_time
    THEN [permit |-> FALSE, file |-> tracker_file]
    ELSE [permit |-> TRUE, file |-> Some(task_time)]

(***************************************************************************)
(* main(): the parse loop and the sort                                     *)
(***************************************************************************)
max_tasks == 5

total_length == 40

\* the lead window of "0 <= time_difference.total_seconds() <= 180"
due_soon_seconds == 180

Task(description, due) ==
    [task_description |-> description, scheduled_date_time |-> due]

\* The while loop over the lines, from index i (0-based) with tasks acc.
\* raised: strptime raised ValueError, which main() does not catch.
RECURSIVE ParseLines(_, _, _)
ParseLines(ls, i, acc) ==
    IF i >= Len(ls) THEN [tasks |-> acc, raised |-> FALSE]
    ELSE
      LET line == Strip(ls[i + 1])
      IN
      IF StartsWith(line, TodoMarker)
      THEN
        LET task_description == parse_task_line(line)
            next_line == IF i + 1 < Len(ls) THEN Strip(ls[i + 2]) ELSE <<>>
        IN
        IF Contains(next_line, ScheduledMarker)
        THEN
          LET scheduled == parse_scheduled_line(next_line)
          IN
          IF scheduled[1] # None
          THEN
            LET scheduled_date_time == strptime(scheduled[1][1], scheduled[2])
            IN
            IF scheduled_date_time = None
            THEN [tasks |-> acc, raised |-> TRUE]
            ELSE ParseLines(ls, i + 2,
                     Append(acc, Task(task_description, scheduled_date_time)))
          ELSE ParseLines(ls, i + 1, Append(acc, Task(task_description, None)))
        ELSE ParseLines(ls, i + 1, Append(acc, Task(task_description, None)))
      ELSE ParseLines(ls, i + 1, acc)

\* key(a) < key(b) for key = (due is None, due or datetime.max)
KeyLess(a, b) ==
    /\ a.scheduled_date_time # None
    /\ \/ b.scheduled_date_time = None
       \/ SortKey(a.scheduled_date_time[1]) < SortKey(b.scheduled_date_time[1])

\* x put into the sorted list behind every element that is not greater
InsertTask(sorted, x) ==
    LET k == Cardinality({j \in 1..Len(sorted) : ~KeyLess(x, sorted[j])})
    IN  SubSeq(sorted, 1, k) \o <<x>> \o SubSeq(sorted, k + 1, Len(sorted))

\* tasks.sort(key=...): list.sort is stable
RECURSIVE SortTasks(_)
SortTasks(ts) ==
    IF ts = <<>> THEN <<>>
    ELSE InsertTask(SortTasks(SubSeq(ts, 1, Len(ts) - 1)), ts[Len(ts)])

\* 0 <= time_difference.total_seconds() <= 180
DueSoon(dt, clock) ==
    /\ 0 <= total_seconds(dt, clock)
    /\ total_seconds(dt, clock) <= due_soon_seconds

(***************************************************************************)
(* main(): one pass of the slot loop, "for i in range(max_tasks)"          *)
(***************************************************************************)
\* What the body of the loop does for slot i.  outcome is what the transport
\* does if it is called: "200", "non200" (requests.post returns) or "raise"
\* (requests.post raises, and nothing in main() catches it).
\*   raised:  the exception that leaves main(), or "none"
\*   display: display_task, written to the slot's file when nothing is raised
\*   gate:    None, or <<the result of should_send_notification>>
\*   id:      the timestamp identity given to the gate
SlotBody(ts, i, clock, tracker_file, outcome) ==
    LET blank == [raised |-> "none", display |-> Spaces(total_length),
                  gate |-> None, id |-> <<>>]
    IN
    IF i < Len(ts)
    THEN
      LET task_description    == ts[i + 1].task_description
          scheduled_date_time == ts[i + 1].scheduled_date_time
      IN
      IF task_description = None
      THEN \* len(None) in truncate_task_description
           [blank EXCEPT !.raised = "TypeError"]
      ELSE
        IF scheduled_date_time # None
        THEN
          LET dt == scheduled_date_time[1]
              formatted_date == format_date(dt)
              date_length == Len(formatted_date) + 3
              trunc_length_with_date == total_length - date_length
              truncated_task ==
                  truncate_task_description(task_description[1],
                                            trunc_length_with_date)
              display_task ==
                  pad_task_description_with_date(truncated_task,
                                                 formatted_date, total_length)
          IN
          IF truncated_task = Hang
          THEN [blank EXCEPT !.raised = "hang"]
          ELSE
            IF DueSoon(dt, clock)
            THEN
              LET g == should_send_notification(tracker_file, isoformat(dt))
              IN  [raised  |-> IF g.permit /\ outcome = "raise"
                               THEN "ConnectionError" ELSE "none",
                   display |-> display_task,
                   gate    |-> Some(g),
                   id      |-> isoformat(dt)]
            ELSE [blank EXCEPT !.display = display_task]
        ELSE
          LET truncated_task ==
                  truncate_task_description(task_description[1], total_length)
          IN  IF truncated_task = Hang
              THEN [blank EXCEPT !.raised = "hang"]
              ELSE [blank EXCEPT !.display = ljust(truncated_task, total_length)]
    ELSE blank

(***************************************************************************)
(* truncate_task_description called on its own, on every short string.     *)
(***************************************************************************)
Alphabet == {"a", "b", " "}

Strings(n) == UNION {[1..k -> Alphabet] : k \in 0..n}

InitRunIdle ==
    /\ lines = <<>>
    /\ now = [year |-> 2024, month |-> 1, day |-> 1, sod |-> 0]
    /\ tracker = None
    /\ files = [i \in 0..(max_tasks - 1) |-> None]
    /\ pc = "idle"
    /\ error = "none"
    /\ tasks = <<>>
    /\ slot = 0
    /\ written = {}
    /\ calls = <<>>
    /\ sent = <<>>
    /\ runs = 0

InitTrunc ==
    /\ InitRunIdle
    /\ tDesc \in Strings(MaxStrLen)
    /\ tLimit \in 0..MaxLimit
    /\ tResult = <<>>
    /\ tpc = "call"

TruncReturn ==
    /\ tpc = "call"
    /\ truncate_task_description(tDesc, tLimit) # Hang
    /\ tResult' = truncate_task_description(tDesc, tLimit)
    /\ tpc' = "done"
    /\ UNCHANGED <<tDesc, tLimit>>
    /\ UNCHANGED runVars

TruncHang ==
    /\ tpc = "call"
    /\ truncate_task_description(tDesc, tLimit) = Hang
    /\ tpc' = "hung"
    /\ UNCHANGED <<tDesc, tLimit, tResult>>
    /\ UNCHANGED runVars

NextTrunc == TruncReturn \/ TruncHang

SpecTrunc == InitTrunc /\ [][NextTrunc]_vars

(***************************************************************************)
(* The markdown files main() is run on.                                    *)
(***************************************************************************)
DateToken(y, m, d) == Pad(y, 4) \o <<"-">> \o Pad(m, 2) \o <<"-">> \o Pad(d, 2)

TimeToken(h, mi) == Pad(h, 2) \o <<":">> \o Pad(mi, 2)

\* "SCHEDULED: <2024-01-01 Mon 10:01>", the time left out when time is <<>>
ScheduledLine(date, time) ==
    ScheduledMarker \o <<" ", "<">> \o date \o <<" ", "M", "o", "n">>
    \o (IF time = <<>> THEN <<>> ELSE <<" ">> \o time) \o <<">">>

TodoLine(description) == TodoMarker \o <<" ">> \o description

\* A TODO line, or a TODO line and the line after it
Catalogue ==
    { <<TodoLine(<<"a">>), ScheduledLine(DateToken(2024, 1, 1), TimeToken(10, 1))>>,
      <<TodoLine(<<"b">>), ScheduledLine(DateToken(2024, 1, 1), TimeToken(10, 2))>>,
      <<TodoLine(<<"c">>), ScheduledLine(DateToken(2024, 1, 1), TimeToken(9, 59))>>,
      <<TodoLine(<<"f">>)>>,
      <<TodoLine(<<"g">>), ScheduledMarker \o <<" ", "s", "o", "o", "n">>>>,
      <<TodoLine(<<>>)>>,
      <<TodoMarker \o <<"x">>>>,
      <<TodoLine(<<"h">>), ScheduledLine(DateToken(2024, 13, 1), <<>>)>>,
      <<TodoLine(<<"i">>), ScheduledLine(DateToken(2024, 1, 1), TimeToken(25, 99))>>,
      <<<<"n", "o", "t", "e">>>> }

RECURSIVE Files(_)
Files(n) ==
    IF n = 0 THEN {<<>>}
    ELSE Files(n - 1) \cup {f \o e : f \in Files(n - 1), e \in Catalogue}

\* k overdue tasks and then one that is due at 10:01
RECURSIVE Overdue(_)
Overdue(k) ==
    IF k = 0
    THEN <<TodoLine(<<"a">>),
           ScheduledLine(DateToken(2024, 1, 1), TimeToken(10, 1))>>
    ELSE <<TodoLine(<<"c">>),
           ScheduledLine(DateToken(2024, 1, 1), TimeToken(9, 59))>>
         \o Overdue(k - 1)

\* a description of n characters, its character p (if any) a space
LongDescription(n, p) == [k \in 1..n |-> IF k = p THEN " " ELSE "w"]

LongFiles ==
    { <<TodoLine(LongDescription(n, p))>> \o sched :
        n \in (MaxDescLen - 14)..MaxDescLen, p \in 0..MaxDescLen,
        sched \in { <<>>,
                    <<ScheduledLine(DateToken(2024, 1, 1), TimeToken(10, 1))>>,
                    <<ScheduledLine(DateToken(2024, 10, 1), <<>>)>>,
                    <<ScheduledLine(DateToken(2024, 12, 25), TimeToken(10, 0))>> } }

MarkdownFiles == Files(MaxEntries) \cup {Overdue(k) : k \in 1..max_tasks}

\* 09:57:00 and 10:00:00 on 2024-01-01
StartTimes ==
    { [year |-> 2024, month |-> 1, day |-> 1, sod |-> 9 * 3600 + 57 * 60],
      [year |-> 2024, month |-> 1, day |-> 1, sod |-> 10 * 3600] }

\* the tracker file before the first run: none, or left by an earlier run
StartTrackers ==
    { None,
      Some(isoformat([year |-> 2024, month |-> 1, day |-> 1, hour |-> 10,
                      minute |-> 1])) }

Outcomes == {"200", "non200", "raise"}

(***************************************************************************)
(* main() as a state machine: StartRun is lines 228-260 (the clock, the    *)
(* parse loop, the sort), SlotStep one pass of the loop of lines 262-283.  *)
(***************************************************************************)
InitRest ==
    /\ files = [i \in 0..(max_tasks - 1) |-> None]
    /\ pc = "idle"
    /\ error = "none"
    /\ tasks = <<>>
    /\ slot = 0
    /\ written = {}
    /\ calls = <<>>
    /\ sent = <<>>
    /\ runs = 0
    /\ tDesc = <<>>
    /\ tLimit = 0
    /\ tResult = <<>>
    /\ tpc = "done"

Init ==
    /\ lines \in MarkdownFiles
    /\ now \in StartTimes
    /\ tracker \in StartTrackers
    /\ InitRest

\* The runs on the long-description files too, from 10:00:00 with no tracker.
InitRender ==
    /\ lines \in MarkdownFiles \cup LongFiles
    /\ now = [year |-> 2024, month |-> 1, day |-> 1, sod |-> 10 * 3600]
    /\ tracker = None
    /\ InitRest

\* A run starts; a run after the first starts a minute after the one before.
StartRun ==
    /\ pc \in {"idle", "done", "crashed"}
    /\ runs < MaxRuns
    /\ runs' = runs + 1
    /\ now' = IF runs = 0 THEN now ELSE [now EXCEPT !.sod = @ + 60]
    /\ LET parsed == ParseLines(lines, 0, <<>>)
       IN  IF parsed.raised
           THEN /\ pc' = "crashed"
                /\ error' = "ValueError"
                /\ tasks' = <<>>
           ELSE /\ pc' = "slots"
                /\ error' = "none"
                /\ tasks' = SortTasks(parsed.tasks)
    /\ slot' = 0
    /\ written' = {}
    /\ UNCHANGED <<lines, tracker, files, calls, sent>>
    /\ UNCHANGED truncVars

SlotStep(outcome) ==
    /\ pc = "slots"
    /\ slot < max_tasks
    /\ LET body == SlotBody(tasks, slot, now, tracker, outcome)
       IN  /\ tracker' = IF body.gate = None THEN tracker ELSE body.gate[1].file
           /\ calls' = IF body.gate = None THEN calls
                       ELSE Append(calls, [run |-> runs, slot |-> slot,
                                           id |-> body.id, before |-> tracker,
                                           permit |-> body.gate[1].permit,
                                           after |-> body.gate[1].file])
           /\ sent' = IF body.gate # None /\ body.gate[1].permit
                      THEN Append(sent, [run |-> runs, slot |-> slot,
                                         id |-> body.id, outcome |-> outcome])
                      ELSE sent
           /\ IF body.raised = "none"
              THEN /\ files' = [files EXCEPT ![slot] = Some(body.display)]
                   /\ written' = written \cup {slot}
                   /\ slot' = slot + 1
                   /\ pc' = IF slot + 1 = max_tasks THEN "done" ELSE "slots"
                   /\ error' = "none"
              ELSE /\ pc' = IF body.raised = "hang" THEN "hung" ELSE "crashed"
                   /\ error' = body.raised
                   /\ UNCHANGED <<files, written, slot>>
    /\ UNCHANGED <<lines, now, tasks, runs>>
    /\ UNCHANGED truncVars

Next == StartRun \/ \E outcome \in Outcomes : SlotStep(outcome)

Spec == Init /\ [][Next]_vars

SpecRender == InitRender /\ [][Next]_vars


(***************************************************************************)
(* The claims.                                                             *)
(***************************************************************************)
AllSlots == 0..(max_tasks - 1)

RunEnded == pc \in {"done", "crashed"}

\* C1: truncate_task_description(description, L) returns, for every
\* description and every limit L (L < 3 included), a string of at most L
\* characters.
C1_TruncatedFitsLimit ==
    /\ tpc # "hung"
    /\ tpc = "done" => Len(tResult) <= tLimit

\* C2: when the description is longer than L and has a space within its first
\* L characters, the text before the trailing '...' is a prefix of the
\* description that is followed by a space: the cut is never inside a word.
C2_CutAtWordBoundary ==
    ( /\ tpc = "done"
      /\ Len(tDesc) > tLimit
      /\ \E p \in 1..tLimit : tDesc[p] = " " )
    => LET text == Take(tResult, Len(tResult) - 3)
       IN  /\ Len(tResult) >= 3
           /\ SubSeq(tResult, Len(tResult) - 2, Len(tResult)) = Ellipsis
           /\ Len(text) < Len(tDesc)
           /\ text = Take(tDesc, Len(text))
           /\ tDesc[Len(text) + 1] = " "

\* C3: every string written to a display slot is exactly total_length (40)
\* characters long: a dated task, an undated task or an empty slot.
C3_SlotWidth ==
    \A i \in AllSlots : files[i] # None => Len(files[i][1]) = total_length

\* C3's case: a finished run that wrote a dated task whose description had to
\* be truncated, an undated or empty slot behind it.
C3_Witness ==
    /\ pc = "done"
    /\ written = AllSlots
    /\ tasks # <<>>
    /\ tasks[1].scheduled_date_time # None
    /\ tasks[1].task_description # None
    /\ Len(tasks[1].task_description[1]) > total_length - 9
    /\ files[0] # None
    /\ SubSeq(files[0][1], 1, 3) = <<"w", "w", "w">>

\* C4: every run that reads the markdown file writes exactly N = 5 widget
\* files, slots 0..4, whatever the lines contain; the slots beyond the task
\* count are written as blank strings.
C4_AllSlotsWritten ==
    RunEnded =>
        /\ written = AllSlots
        /\ \A i \in AllSlots :
               i >= Len(tasks) => files[i] = Some(Spaces(total_length))

\* C5: the gate is idempotent per identity: a call whose identity differs
\* from the stored marker (or that finds no marker file) permits the send and
\* leaves the marker equal to the identity; a call that follows a call with
\* the same identity permits nothing and leaves the marker file unchanged.
C5_GateIdempotent ==
    \A k \in 1..Len(calls) :
        /\ (calls[k].before = None \/ calls[k].before[1] # calls[k].id)
               => calls[k].permit /\ calls[k].after = Some(calls[k].id)
        /\ (k > 1 /\ calls[k - 1].id = calls[k].id)
               => /\ ~calls[k].permit
                  /\ calls[k].after = calls[k].before
                  /\ calls[k].after = Some(calls[k].id)

\* C5's case: a call that found another identity in the marker file and was
\* permitted, and right after it a call with the same identity.
C5_Witness ==
    \E k \in 1..(Len(calls) - 1) :
        /\ calls[k].before # None
        /\ calls[k].before[1] # calls[k].id
        /\ calls[k].permit
        /\ calls[k + 1].id = calls[k].id
        /\ ~calls[k + 1].permit

\* the tracker file as the current run found it
TrackerAtRunStart ==
    LET mine == {k \in 1..Len(calls) : calls[k].run = runs}
    IN  IF mine = {} THEN tracker
        ELSE calls[CHOOSE k \in mine : \A j \in mine : k <= j].before

\* C6: in a run, every parsed task that is due within 0..180 seconds is given
\* to the gate, and is sent when the marker at the start of the run differs
\* from its identity, whatever the other tasks are; a task outside the window
\* causes no send.
C6_EveryDueSoonTaskNotified ==
    pc = "done" =>
        /\ \A t \in 1..Len(tasks) :
             ( /\ tasks[t].scheduled_date_time # None
               /\ DueSoon(tasks[t].scheduled_date_time[1], now) )
             => /\ \E k \in 1..Len(calls) :
                       calls[k].run = runs /\ calls[k].slot = t - 1
                /\ ( TrackerAtRunStart
                        # Some(isoformat(tasks[t].scheduled_date_time[1])) )
                   => \E k \in 1..Len(sent) :
                          sent[k].run = runs /\ sent[k].slot = t - 1
        /\ \A k \in 1..Len(sent) :
             sent[k].run = runs
             => DueSoon(tasks[sent[k].slot + 1].scheduled_date_time[1], now)

\* line i is a TODO line and line i + 1 a SCHEDULED line whose date and time
\* tokens have the digit pattern but are no real date or time
UnparseablePair(ls, i) ==
    /\ i + 1 <= Len(ls)
    /\ StartsWith(Strip(ls[i]), TodoMarker)
    /\ Contains(Strip(ls[i + 1]), ScheduledMarker)
    /\ parse_scheduled_line(Strip(ls[i + 1]))[1] # None
    /\ strptime(parse_scheduled_line(Strip(ls[i + 1]))[1][1],
                parse_scheduled_line(Strip(ls[i + 1]))[2]) = None

\* C7: a TODO line followed by a SCHEDULED line with an unparseable date or
\* time gives an undated task: the run does not fail, the task is kept with
\* no due date, and all N widget files are written.
C7_UnparseableDateIsUndated ==
    \A i \in 1..Len(lines) :
        (RunEnded /\ UnparseablePair(lines, i))
        => /\ error # "ValueError"
           /\ \E t \in 1..Len(tasks) :
                  /\ tasks[t].task_description = parse_task_line(Strip(lines[i]))
                  /\ tasks[t].scheduled_date_time = None
           /\ written = AllSlots

\* C8: when the transport fails (raises, or answers other than 200) for a
\* due-soon task, no exception surfaces, the slot's file is written and the
\* run goes on, the send is not repeated in that run, and the tracker file
\* was given the task's identity.
C8_TransportFailureContained ==
    \A k \in 1..Len(sent) :
        (sent[k].run = runs /\ sent[k].outcome # "200")
        => /\ error # "ConnectionError"
           /\ sent[k].slot \in written
           /\ \A j \in 1..Len(sent) :
                  (sent[j].run = runs /\ sent[j].slot = sent[k].slot) => j = k
           /\ \E c \in 1..Len(calls) :
                  /\ calls[c].run = runs
                  /\ calls[c].slot = sent[k].slot
                  /\ calls[c].after = Some(sent[k].id)

\* the line starts with "- TODO " and a description follows
TodoGrammar(line) ==
    /\ StartsWith(line, TodoMarker \o <<" ">>)
    /\ Len(line) > Len(TodoMarker) + 1

\* C9: the parser makes a task of a line if and only if the line starts with
\* "- TODO " followed by a non-empty description, so every task of the task
\* list has a non-empty string description, never a missing one.
C9_TasksHaveDescriptions ==
    (pc \in {"slots", "done", "crashed"} /\ error # "ValueError")
    => /\ \A t \in 1..Len(tasks) :
              /\ tasks[t].task_description # None
              /\ tasks[t].task_description[1] # <<>>
       /\ Len(tasks)
              = Cardinality({i \in 1..Len(lines) : TodoGrammar(Strip(lines[i]))})

====
